---------------------------- MODULE Spec2Model ----------------------------
(***************************************************************************)
(* A model of the FPL projection and squad optimisation program            *)
(* (src/main.py, src/fpl_data.py, src/fpl_model.py, src/fpl_solver.py).    *)
(*                                                                         *)
(* Numbers.  The program computes in floating point; the model computes in *)
(* exact fixed point:                                                      *)
(*   per-90 rates            in units of 1/10000  (0.45  is 4500)          *)
(*   season weights          in units of 1/100    (0.35  is 35)            *)
(*   cost after the /10      in units of 1/10     (18.5  is 185)           *)
(*   probabilities           in units of 1/1000   (0.2   is 200)           *)
(*   points                  in units of 1/1000   (2     is 2000)          *)
(* A pandas NaN is the empty tuple << >>, a present number v is <<v>>, in  *)
(* every column that can hold a NaN.                                       *)
(***************************************************************************)
EXTENDS Integers, Sequences, FiniteSets, TLC

VARIABLES
    pc,            \* position of the run that the specification models
    players,       \* the roster as fetched: one row per player
    minutes_df,    \* the minutes projections: player_id, xMin per gameweek
    cs_df,         \* the clean sheet table: one row per club
    api,           \* the remote history service: player id -> response
    player_ids,    \* the ids handed to get_player_history, in row order
    futures,       \* player id -> state of its worker task and its result
    past_list,     \* get_player_history's past_list, in arrival order
    past_data,     \* the indexed frame get_player_history returns
    players_full,  \* main's players_full: player id -> row
    wc_team,       \* main's wc_team
    fh_team        \* main's fh_team

vars == <<pc, players, minutes_df, cs_df, api, player_ids, futures, past_list,
          past_data, players_full, wc_team, fh_team>>

\* The inputs of a run: no step changes them.
inputs == <<players, minutes_df, cs_df, api>>

---------------------------------------------------------------------------
(* NaN and numbers *)

NaN == << >>
Num(v) == <<v>>
IsNaN(x) == x = NaN
Val(x) == x[1]

\* Series.fillna(other): a NaN cell takes the other column's cell.
fillna(x, other) == IF IsNaN(x) THEN other ELSE x

RECURSIVE SumSeq(_)
SumSeq(s) == IF s = << >> THEN 0 ELSE Head(s) + SumSeq(Tail(s))

RECURSIVE SumOver(_, _)
SumOver(f, S) ==
    IF S = {} THEN 0
    ELSE LET x == CHOOSE y \in S : TRUE IN f[x] + SumOver(f, S \ {x})

SetMax(S) == CHOOSE m \in S : \A x \in S : x <= m

SeqRange(s) == {s[i] : i \in 1..Len(s)}

\* The rows of s that satisfy keep, in order (a boolean-mask selection).
RECURSIVE SelectRows(_, _)
SelectRows(s, keep) ==
    IF s = << >> THEN << >>
    ELSE IF Head(s) \in keep THEN <<Head(s)>> \o SelectRows(Tail(s), keep)
         ELSE SelectRows(Tail(s), keep)

---------------------------------------------------------------------------
(* fpl_data.fetch_single_player_history *)

\* A field of a season entry of the service's JSON.
Field(v) == [k |-> "num", v |-> v]
Missing == [k |-> "missing", v |-> 0]
NonNumeric == [k |-> "str", v |-> 0]

RecognizedSeasons == {"2022/23", "2023/24", "2024/25"}
MinHistoryMinutes == 250

stats == <<"goals_scored", "assists", "bonus", "saves", "yellow_cards">>
cols == <<"g", "a", "b", "s", "y">>

\* SeasonWeights with each vector reversed (heaviest on the oldest season).
SeasonWeightsReversed(n_seasons) ==
    IF n_seasons = 1 THEN <<100>>
    ELSE IF n_seasons = 2 THEN <<65, 35>>
    ELSE <<65, 25, 10>>

\* Weighted average based on the number of available seasons; the last
\* branch is the code's else, taken for every count other than 1 and 2.
SeasonWeights(n_seasons) ==
    IF n_seasons = 1 THEN <<100>>
    ELSE IF n_seasons = 2 THEN <<35, 65>>
    ELSE <<10, 25, 65>>

\* past[past["season_name"].isin([...])]
SeasonFilter(past) ==
    SelectRows(past, {r \in SeqRange(past) : r.season_name \in RecognizedSeasons})

\* past[past["minutes"] > 250]: a NaN minutes cell compares False.
MinutesFilter(past) ==
    SelectRows(past, {r \in SeqRange(past) :
                        r.minutes.k = "num" /\ r.minutes.v > MinHistoryMinutes})

Eligible(past) == MinutesFilter(SeasonFilter(past))

\* (past[stat] / past["minutes"]) * 90, in units of 1/10000.
Per90(r, stat) == (r[stat].v * 900000) \div r.minutes.v

\* The statements of the try block that raise (the except clause catches
\* every one of them):
\*   the request or the JSON decoding fails, or "history_past" is absent;
\*   no entry carries a "minutes" key, so the column does not exist;
\*   a row that survives the filters holds a non-numeric stat;
\*   weights[i] is indexed past the three weights.
FetchRaises(data) ==
    \/ ~data.ok
    \/ /\ data.history_past # << >>
       /\ \/ \A r \in SeqRange(data.history_past) : r.minutes.k = "missing"
          \/ \E r \in SeqRange(Eligible(data.history_past)) :
                 \E i \in 1..Len(stats) : r[stats[i]].k # "num"
          \/ Len(Eligible(data.history_past)) > Len(SeasonWeights(Len(Eligible(data.history_past))))

\* "return 0", the 'no data' result.
NoData == << >>

\* The outcome of a task whose exception leaves the worker function.
Raised == <<"raised">>

\* The worker function without its except clause.
OnExceptionReraise == Raised

\* except Exception: return 0
OnException == NoData

\* final_stats: one weighted value per column, then the player id.
FinalStats(past, player_id) ==
    LET w == SeasonWeights(Len(past))
    IN  [c \in 1..(Len(cols) + 1) |->
            IF c <= Len(cols)
            THEN SumSeq([i \in 1..Len(past) |-> Per90(past[i], stats[c]) * w[i]]) \div 100
            ELSE player_id]

fetch_single_player_history(player_id, data) ==
    IF FetchRaises(data) THEN OnException
    ELSE IF data.history_past = << >> THEN NoData
    ELSE IF Eligible(data.history_past) = << >> THEN NoData
    ELSE FinalStats(Eligible(data.history_past), player_id)

---------------------------------------------------------------------------
(* fpl_data.get_player_history: the worker pool *)

\* executor.submit(fetch_single_player_history, pid) for every pid.
HistSubmit ==
    /\ pc = "get_player_history"
    /\ futures' = [p \in SeqRange(player_ids) |-> [st |-> "pending", result |-> NoData]]
    /\ past_list' = << >>
    /\ pc' = "as_completed"
    /\ UNCHANGED <<inputs, player_ids, past_data, players_full, wc_team, fh_team>>

\* A worker thread runs one task to its return; the pool gives no order.
WorkerRun(p) ==
    /\ pc = "as_completed"
    /\ futures[p].st = "pending"
    /\ futures' = [futures EXCEPT ![p] =
                      [st |-> "done", result |-> fetch_single_player_history(p, api[p])]]
    /\ UNCHANGED <<pc, inputs, player_ids, past_list, past_data, players_full,
                   wc_team, fh_team>>

\* CollectResult keyed by arrival: the k-th result collected is filed under
\* the k-th id submitted.
CollectByArrival(p) ==
    /\ pc = "as_completed"
    /\ futures[p].st = "done"
    /\ futures' = [futures EXCEPT ![p].st = "collected"]
    /\ pc' = pc
    /\ past_list' = IF futures[p].result # NoData
                    THEN Append(past_list,
                            [futures[p].result EXCEPT ![6] = player_ids[Len(past_list) + 1]])
                    ELSE past_list
    /\ UNCHANGED <<inputs, player_ids, past_data, players_full, wc_team, fh_team>>

\* One turn of the as_completed loop: a finished future is yielded, and its
\* result is appended unless it is the 'no data' result.  future.result()
\* raises again what the task raised, which ends get_player_history.
CollectResult(p) ==
    /\ pc = "as_completed"
    /\ futures[p].st = "done"
    /\ futures' = [futures EXCEPT ![p].st = "collected"]
    /\ IF futures[p].result = Raised
       THEN pc' = "raised" /\ past_list' = past_list
       ELSE /\ pc' = pc
            /\ past_list' = IF futures[p].result # NoData
                            THEN Append(past_list, futures[p].result)
                            ELSE past_list
    /\ UNCHANGED <<inputs, player_ids, past_data, players_full, wc_team, fh_team>>

\* pd.DataFrame(past_list, columns=[g, a, b, s, y, id]).set_index("id"):
\* one row per list entry, in list order, keyed by its sixth value.
IndexedFrame(rows) ==
    [i \in 1..Len(rows) |->
        [id |-> rows[i][6], g |-> rows[i][1], a |-> rows[i][2], b |-> rows[i][3],
         s |-> rows[i][4], y |-> rows[i][5]]]

HistReturn ==
    /\ pc = "as_completed"
    /\ \A p \in SeqRange(player_ids) : futures[p].st = "collected"
    /\ past_data' = IndexedFrame(past_list)
    /\ pc' = "merge_history"
    /\ UNCHANGED <<inputs, player_ids, futures, past_list, players_full, wc_team, fh_team>>

---------------------------------------------------------------------------
(* main: the merge of the history frame, and fpl_model.fill_missing_history_with_current *)

\* Adds or replaces the columns of ext in row r.
WithCols(r, ext) ==
    [c \in (DOMAIN r) \cup (DOMAIN ext) |-> IF c \in DOMAIN ext THEN ext[c] ELSE r[c]]

\* players_full.merge(past_data, left_on="player_id", right_index=True,
\* how="left") for one left row: the columns of the matching right row, NaN
\* when there is none. (The pool yields one row per id at most.)
MergeHistoryRow(r, frame) ==
    LET hits == {i \in 1..Len(frame) : frame[i].id = r.player_id}
    IN  IF hits = {}
        THEN WithCols(r, [g |-> NaN, a |-> NaN, b |-> NaN, s |-> NaN, y |-> NaN])
        ELSE LET h == frame[CHOOSE i \in hits : TRUE]
             IN  WithCols(r, [g |-> Num(h.g), a |-> Num(h.a), b |-> Num(h.b),
                              s |-> Num(h.s), y |-> Num(h.y)])

\* fill_missing_history_with_current with the assists column filled from the
\* goals column.
FillAssistsFromGoals(r) ==
    WithCols(r, [g |-> fillna(r.g, Num(r.expected_goals_per_90)),
                 a |-> fillna(r.a, Num(r.expected_goals_per_90)),
                 b |-> fillna(r.b, Num(r.bonus_per_90)),
                 s |-> fillna(r.s, Num(r.saves_per_90)),
                 y |-> fillna(r.y, Num(r.yellow_cards_per_90))])

fill_missing_history_with_current(r) ==
    WithCols(r, [g |-> fillna(r.g, Num(r.expected_goals_per_90)),
                 a |-> fillna(r.a, Num(r.expected_assists_per_90)),
                 b |-> fillna(r.b, Num(r.bonus_per_90)),
                 s |-> fillna(r.s, Num(r.saves_per_90)),
                 y |-> fillna(r.y, Num(r.yellow_cards_per_90))])

MergeAndFill ==
    /\ pc = "merge_history"
    /\ players_full' = [i \in DOMAIN players_full |->
           fill_missing_history_with_current(MergeHistoryRow(players_full[i], past_data))]
    /\ pc' = "run_projections"
    /\ UNCHANGED <<inputs, player_ids, futures, past_list, past_data, wc_team, fh_team>>

---------------------------------------------------------------------------
(* The horizon: gameweeks 16..21.  A column named per gameweek (xMin16,    *)
(* Opp16, expected_points16, ...) is a function of the gameweek number.    *)

FirstGW == 16
LastGW == 21
GWs == FirstGW..LastGW

AllNaN == [gw \in GWs |-> NaN]

---------------------------------------------------------------------------
(* fpl_model.calculate_opp_goal_probs, as main applies it to cs_df *)

\* p23 and p4plus in 1/1000, tabulated for clean sheet probabilities
\* 0.05, 0.10, ..., 1.00 (the values -log, exp give, rounded).
P23Table == <<448, 469, 441, 398, 351, 305, 260, 219, 182, 148,
              118, 92, 69, 50, 34, 21, 12, 5, 1, 0>>
P4PlusTable == <<352, 201, 125, 80, 52, 34, 22, 14, 9, 6,
                 3, 2, 1, 1, 0, 0, 0, 0, 0, 0>>

CsIndex(cs) == IF cs < 50 THEN 1 ELSE IF cs > 1000 THEN 20 ELSE cs \div 50

\* A NaN probability gives NaN; probability 0 gives lam = inf and then
\* inf * 0 = NaN in p1, so both results are NaN as well.
calculate_opp_goal_probs(cs_prob) ==
    IF IsNaN(cs_prob) \/ Val(cs_prob) <= 0
    THEN [p23 |-> NaN, p4plus |-> NaN]
    ELSE [p23 |-> Num(P23Table[CsIndex(Val(cs_prob))]),
          p4plus |-> Num(P4PlusTable[CsIndex(Val(cs_prob))])]

\* main: cs_df[x2_gw], cs_df[x4_gw] for every gameweek.
WithGoalProbs(club) ==
    WithCols(club,
        [x2 |-> [gw \in GWs |-> calculate_opp_goal_probs(club.xClean_sheets[gw]).p23],
         x4 |-> [gw \in GWs |-> calculate_opp_goal_probs(club.xClean_sheets[gw]).p4plus]])

---------------------------------------------------------------------------
(* fpl_data.build_master_dataframe *)

Matches(frame, key, v) == {i \in 1..Len(frame) : frame[i][key] = v}

KeysUnique(frame, key) ==
    \A i, j \in 1..Len(frame) : frame[i][key] = frame[j][key] => i = j

\* merge(minutes_df, on="player_id", how="left") for one left row.
MergeMinutesRow(r, mins) ==
    LET hits == Matches(mins, "player_id", r.player_id)
    IN  WithCols(r, [xMin |-> IF hits = {} THEN AllNaN
                              ELSE mins[CHOOSE i \in hits : TRUE].xMin])

\* merge(cs_df, on="team_name", how="left") for one left row.
MergeCleanSheetRow(r, cs) ==
    LET hits == Matches(cs, "team_name", r.team_name)
    IN  IF hits = {}
        THEN WithCols(r, [Opp |-> AllNaN, xClean_sheets |-> AllNaN,
                          x2 |-> AllNaN, x4 |-> AllNaN])
        ELSE LET c == cs[CHOOSE i \in hits : TRUE]
             IN  WithCols(r, [Opp |-> c.Opp, xClean_sheets |-> c.xClean_sheets,
                              x2 |-> c.x2, x4 |-> c.x4])

\* MergeValid with the keys of the left frame checked only.
MergeValidLeftOnly(roster, mins, cs) ==
    KeysUnique(roster, "player_id")

\* validate="1:1" on player_id, validate="many_to_one" on team_name: pandas
\* raises MergeError when the keys are not unique where they must be.
MergeValid(roster, mins, cs) ==
    /\ KeysUnique(roster, "player_id")
    /\ KeysUnique(mins, "player_id")
    /\ KeysUnique(cs, "team_name")

build_master_dataframe(roster, mins, cs) ==
    [i \in 1..Len(roster) |-> MergeCleanSheetRow(MergeMinutesRow(roster[i], mins), cs)]

NoTeam == [status |-> "unset", rows |-> << >>]

\* main, lines 116-126.
BuildMaster ==
    /\ pc = "build_master_dataframe"
    /\ LET cs == [i \in 1..Len(cs_df) |-> WithGoalProbs(cs_df[i])]
       IN  IF MergeValid(players, minutes_df, cs)
           THEN /\ players_full' = build_master_dataframe(players, minutes_df, cs)
                /\ pc' = "prepare_data_for_modeling"
           ELSE /\ players_full' = << >>
                /\ pc' = "MergeError"
    /\ UNCHANGED <<inputs, player_ids, futures, past_list, past_data, wc_team, fh_team>>

---------------------------------------------------------------------------
(* fpl_model.prepare_data_for_modeling *)

MinMinutes == 250
MinXMin == 55

\* InPopulation with the minutes floor included.
InPopulationAtLeast(r) ==
    /\ r.minutes >= MinMinutes
    /\ ~IsNaN(r.xMin[FirstGW])
    /\ Val(r.xMin[FirstGW]) > MinXMin

\* df[df["minutes"] > 250], then df[df["xMin16"] > 55]; NaN > 55 is False.
InPopulation(r) ==
    /\ r.minutes > MinMinutes
    /\ ~IsNaN(r.xMin[FirstGW])
    /\ Val(r.xMin[FirstGW]) > MinXMin

\* np.select over form >= 6.0, >= 2.0, >= 0, default 0.8 (form and the
\* multiplier in tenths).
FormMultiplier(form) ==
    IF form >= 60 THEN 11
    ELSE IF form >= 20 THEN 10
    ELSE IF form >= 0 THEN 9
    ELSE 8

\* The per-90 conversions (rates in 1/10000); now_cost / 10 keeps the cost
\* number and changes its unit to 1/10.
PreparedRow(r) ==
    WithCols(r, [bonus_per_90 |-> (r.bonus * 900000) \div r.minutes,
                 yellow_cards_per_90 |-> (r.yellow_cards * 900000) \div r.minutes,
                 def_contrib_per90 |-> (r.defensive_contribution * 900000) \div r.minutes,
                 form_multiplier |-> FormMultiplier(r.form)])

prepare_data_for_modeling(df) ==
    LET kept == SelectRows(df, {r \in SeqRange(df) : InPopulation(r)})
    IN  [i \in 1..Len(kept) |-> PreparedRow(kept[i])]

Prepare ==
    /\ pc = "prepare_data_for_modeling"
    /\ players_full' = prepare_data_for_modeling(players_full)
    /\ player_ids' = [i \in 1..Len(players_full') |-> players_full'[i].player_id]
    /\ pc' = "get_player_history"
    /\ UNCHANGED <<inputs, futures, past_list, past_data, wc_team, fh_team>>

\* get_player_history as one step of main: every task run and collected.
GetPlayerHistory ==
    /\ pc = "get_player_history"
    /\ LET results == [i \in 1..Len(player_ids) |->
                          fetch_single_player_history(player_ids[i], api[player_ids[i]])]
       IN  IF Raised \in SeqRange(results)
           THEN pc' = "raised" /\ UNCHANGED <<past_list, past_data>>
           ELSE /\ past_list' = SelectRows(results, SeqRange(results) \ {NoData})
                /\ past_data' = IndexedFrame(past_list')
                /\ pc' = "merge_history"
    /\ UNCHANGED <<inputs, player_ids, futures, players_full, wc_team, fh_team>>

---------------------------------------------------------------------------
(* fpl_model.compute_gw_points, run_projections, apply_decay *)

\* Fixture multipliers in 1/100.
DIFFICULTY_MAP ==
    [o \in {"ARS", "MCI", "LIV", "BRE"} |-> 85] @@
    [o \in {"MUN", "NEW", "EVE", "CHE"} |-> 90] @@
    [o \in {"CRY", "FUL", "BHA", "AVL"} |-> 100] @@
    [o \in {"BOU", "NFO", "TOT", "SUN"} |-> 110] @@
    [o \in {"LEE", "WHU", "WOL", "BUR"} |-> 120]

\* df[opp_col].map(DIFFICULTY_MAP).fillna(1.0): a NaN opponent and a code
\* the map does not hold both map to NaN, which fillna turns into 1.0.
FixtureMult(opp) ==
    LET mapped == IF IsNaN(opp) \/ Val(opp) \notin DOMAIN DIFFICULTY_MAP
                  THEN NaN ELSE Num(DIFFICULTY_MAP[Val(opp)])
    IN  Val(fillna(mapped, Num(100)))

\* 1 - poisson.cdf(9, lam) and 1 - poisson.cdf(11, lam) in 1/1000, tabulated
\* for lam = 0, 0.5, 1, ..., 20 (lam is taken to the nearest half).
P10Table == <<0, 0, 0, 0, 0, 0, 1, 3, 8, 17, 32, 54, 84, 123, 170, 224, 283, 347,
              413, 478, 542, 603, 659, 711, 758, 799, 834, 865, 891, 912, 930,
              945, 957, 966, 974, 980, 985, 988, 991, 993, 995>>
P12Table == <<0, 0, 0, 0, 0, 0, 0, 0, 1, 2, 5, 11, 20, 34, 53, 79, 112, 151, 197,
              248, 303, 361, 421, 480, 538, 594, 647, 696, 740, 780, 815, 846,
              873, 896, 915, 932, 945, 956, 965, 973, 979>>

\* lam in 1/10000 -> index of the nearest half unit, the last entry beyond 20.
LamIndex(lam) ==
    LET h == (lam + 2500) \div 5000 IN IF h >= Len(P10Table) THEN Len(P10Table) ELSE h + 1

\* Position weights; save3 is the save weight in thirds (1/3 is 1).
w_fwd == [goal |-> 4, assist |-> 3, cs |-> 0, save3 |-> 0, def |-> 0, defcon1 |-> 0, defcon2 |-> 1]
w_mid == [goal |-> 5, assist |-> 3, cs |-> 1, save3 |-> 0, def |-> 0, defcon1 |-> 0, defcon2 |-> 1]
w_def == [goal |-> 6, assist |-> 3, cs |-> 4, save3 |-> 0, def |-> 1, defcon1 |-> 1, defcon2 |-> 0]
w_gk == [goal |-> 0, assist |-> 0, cs |-> 4, save3 |-> 1, def |-> 0, defcon1 |-> 1, defcon2 |-> 0]

\* expected_points{gw} of one row, in 1/1000 points.  Every column read is
\* multiplied or added in, so a NaN in any of them gives NaN (NaN * 0 is
\* NaN too); the fixture multiplier alone is filled.
GwPoints(r, weights, gw) ==
    IF \/ IsNaN(r.xMin[gw]) \/ IsNaN(r.xClean_sheets[gw])
       \/ IsNaN(r.x2[gw]) \/ IsNaN(r.x4[gw])
       \/ IsNaN(r.g) \/ IsNaN(r.a) \/ IsNaN(r.b) \/ IsNaN(r.s) \/ IsNaN(r.y)
    THEN NaN
    ELSE
    LET fixture_mult == FixtureMult(r.Opp[gw])
        cs == Val(r.xClean_sheets[gw])
        lambda_def == (r.def_contrib_per90 * (2000 - cs)) \div 2000
        p_10 == P10Table[LamIndex(lambda_def)]
        p_12 == P12Table[LamIndex(lambda_def)]
        fm == r.form_multiplier * fixture_mult
        offensive_points ==
            (( ((r.expected_goals_per_90 * 7 + Val(r.g) * 3) * fm * weights.goal) \div 100
             + ((r.bonus_per_90 * 7 + Val(r.b) * 3) * fm) \div 100
             + ((r.expected_assists_per_90 * 7 + Val(r.a) * 3) * fm * weights.assist) \div 100
             ) * Val(r.xMin[gw])) \div 90000
        defensive_points ==
              cs * weights.cs
            + ((r.saves_per_90 + Val(r.s)) * weights.save3) \div 60
            - Val(r.x2[gw]) * weights.def
            - 2 * Val(r.x4[gw]) * weights.def
            + 2 * p_10 * weights.defcon1
            + 2 * p_12 * weights.defcon2
    IN  Num(2000 + offensive_points + defensive_points
            - (r.yellow_cards_per_90 * 3 + Val(r.y) * 7) \div 100)

compute_gw_points(r, weights, gw) ==
    WithCols(r, [expected_points |->
        [k \in GWs |-> IF k = gw THEN GwPoints(r, weights, gw) ELSE r.expected_points[k]]])

PositionWeights ==
    [Forward |-> w_fwd, Midfielder |-> w_mid, Defender |-> w_def, Goalkeeper |-> w_gk]

RECURSIVE ProjectFrom(_, _)
ProjectFrom(r, gw) ==
    IF gw > LastGW THEN r
    ELSE ProjectFrom(compute_gw_points(r, PositionWeights[r.position], gw), gw + 1)

\* run_projections for one row: a row of none of the four positions is in
\* no position frame and keeps NaN in every expected_points column.
ProjectedRow(r) ==
    LET r0 == WithCols(r, [total_expected_points |-> 0, expected_points |-> AllNaN])
    IN  IF r.position \in DOMAIN PositionWeights THEN ProjectFrom(r0, FirstGW) ELSE r0

run_projections(df) == [i \in 1..Len(df) |-> ProjectedRow(df[i])]

\* decay_rate ** i for i = 0..5 with decay_rate = 0.92, in 1/10000.
DecayWeights == <<10000, 9200, 8464, 7787, 7164, 6591>>

\* df[decayed_cols].sum(axis=1) skips NaN cells.
DecayedRow(r) ==
    LET decayed == [gw \in GWs |->
            IF IsNaN(r.expected_points[gw]) THEN NaN
            ELSE Num((Val(r.expected_points[gw]) * DecayWeights[gw - FirstGW + 1]) \div 10000)]
        present == {gw \in GWs : ~IsNaN(decayed[gw])}
    IN  WithCols(r, [decayed_points |-> decayed,
                     total_decayed_points |-> SumOver([gw \in GWs |-> IF gw \in present THEN Val(decayed[gw]) ELSE 0], GWs)])

apply_decay(df) == [i \in 1..Len(df) |-> DecayedRow(df[i])]

\* main, lines 137-142.
RunProjections ==
    /\ pc = "run_projections"
    /\ players_full' = apply_decay(run_projections(players_full))
    /\ pc' = "solve"
    /\ UNCHANGED <<inputs, player_ids, futures, past_list, past_data, wc_team, fh_team>>

---------------------------------------------------------------------------
(* fpl_solver.solve_fpl_team *)

SquadSize == 15
StarterCount == 11
Budget == 1000       \* 100, in 1/10
BenchFloor == 185    \* 18.5, in 1/10
ClubLimit == 3
SquadQuota == [Goalkeeper |-> 2, Defender |-> 5, Midfielder |-> 5, Forward |-> 3]

\* The subsets of S (a set of integers) that hold exactly k elements.
RECURSIVE kSubsets(_, _)
kSubsets(S, k) ==
    IF k = 0 THEN {{}}
    ELSE IF Cardinality(S) < k THEN {}
    ELSE UNION {{T \cup {x} : T \in kSubsets({y \in S : y > x}, k - 1)} : x \in S}

\* The dictionaries built from the frame, keyed by player_id.
Problem(df) ==
    LET ids == {df[i].player_id : i \in 1..Len(df)}
        row == [p \in ids |-> df[CHOOSE i \in 1..Len(df) : df[i].player_id = p]]
    IN  [ids |-> ids,
         order |-> [i \in 1..Len(df) |-> df[i].player_id],
         names |-> [p \in ids |-> row[p].first_name \o " " \o row[p].second_name],
         teams |-> [p \in ids |-> row[p].team_name],
         positions |-> [p \in ids |-> row[p].position],
         costs |-> [p \in ids |-> row[p].now_cost],
         wc_points |-> [p \in ids |-> row[p].total_decayed_points],
         fh_points |-> [p \in ids |-> Val(row[p].expected_points[FirstGW])]]

CountPos(prob, S, pos) == Cardinality({i \in S : prob.positions[i] = pos})

\* Objective with the bench at full weight in wildcard mode.
ObjectiveBenchFull(prob, mode, a) ==
    IF mode = "wildcard"
    THEN 2 * SumOver(prob.wc_points, a.starters)
         + 2 * SumOver(prob.wc_points, a.squad \ a.starters)
    ELSE 2 * SumOver(prob.fh_points, a.starters)

\* Twice the objective (so that the half weight of the bench is a whole
\* number): wildcard, starters plus 50% of the bench; free hit, starters only.
Objective(prob, mode, a) ==
    IF mode = "wildcard"
    THEN 2 * SumOver(prob.wc_points, a.starters)
         + SumOver(prob.wc_points, a.squad \ a.starters)
    ELSE 2 * SumOver(prob.fh_points, a.starters)

\* 100 million budget
BudgetOk(prob, a) == SumOver(prob.costs, a.squad) <= Budget

\* BenchOk with the floor put on the other mode.
BenchOkWrongMode(prob, mode, a) ==
    mode = "free_hit" =>
        SumOver(prob.costs, a.squad) - SumOver(prob.costs, a.starters) >= BenchFloor

\* Bench has to be at least 18.5 million, in wildcard mode
BenchOk(prob, mode, a) ==
    mode = "wildcard" =>
        SumOver(prob.costs, a.squad) - SumOver(prob.costs, a.starters) >= BenchFloor

\* ClubOk with the limit off by one.
ClubOkOffByOne(prob, a) ==
    \A t \in {prob.teams[i] : i \in prob.ids} :
        Cardinality({i \in a.squad : prob.teams[i] = t}) <= ClubLimit + 1

\* A maximum of three players for each team
ClubOk(prob, a) ==
    \A t \in {prob.teams[i] : i \in prob.ids} :
        Cardinality({i \in a.squad : prob.teams[i] = t}) <= ClubLimit

\* 2 gk, 5 def, 5 mid, 3 forwards
QuotaOk(prob, a) ==
    \A pos \in DOMAIN SquadQuota : CountPos(prob, a.squad, pos) = SquadQuota[pos]

\* 1 starting gk, at least 3 defenders, at least 1 forward starting
LineupOk(prob, a) ==
    /\ CountPos(prob, a.starters, "Goalkeeper") = 1
    /\ CountPos(prob, a.starters, "Defender") >= 3
    /\ CountPos(prob, a.starters, "Forward") >= 1

\* The constraints on squad_vars alone.
SquadConstraints(prob, a) ==
    /\ Cardinality(a.squad) = SquadSize
    /\ BudgetOk(prob, a)
    /\ ClubOk(prob, a)
    /\ QuotaOk(prob, a)

\* The constraints that read starter_vars.
StarterConstraints(prob, mode, a) ==
    /\ Cardinality(a.starters) = StarterCount
    /\ a.starters \subseteq a.squad
    /\ BenchOk(prob, mode, a)
    /\ LineupOk(prob, a)

\* The 0/1 assignments of squad_vars and starter_vars that satisfy every
\* constraint of the problem, each as the sets of ids valued 1.  They are
\* enumerated squad first: 15 ids, then 11 of them.
Feasible(prob, mode) ==
    LET squads == {sq \in kSubsets(prob.ids, SquadSize) :
                      SquadConstraints(prob, [squad |-> sq, starters |-> {}])}
    IN  UNION {{a \in {[squad |-> sq, starters |-> sq \ b] :
                          b \in kSubsets(sq, SquadSize - StarterCount)} :
                  StarterConstraints(prob, mode, a)} : sq \in squads}

\* prob.solve(solver): CBC ends with status Optimal and an assignment of
\* the largest objective among the feasible ones, or with another status
\* when there is none; the binaries are bounded, so no other end exists.
SolverOutcomes(prob, mode) ==
    LET F == Feasible(prob, mode)
        value == [a \in F |-> Objective(prob, mode, a)]
    IN  IF F = {} THEN {[status |-> "Infeasible"]}
        ELSE LET best == SetMax({value[a] : a \in F})
             IN  {[status |-> "Optimal", squad |-> a.squad, starters |-> a.starters] :
                     a \in {b \in F : value[b] = best}}

role_map == [Starter |-> 0, Bench |-> 1]
pos_map == [Goalkeeper |-> 0, Defender |-> 1, Midfielder |-> 2, Forward |-> 3]

\* The records of the selected players, in the order of ids.
Selected(prob, mode, out) ==
    LET chosen == SelectRows(prob.order, out.squad)
    IN  [k \in 1..Len(chosen) |->
            LET i == chosen[k]
            IN  [Role |-> IF i \in out.starters THEN "Starter" ELSE "Bench",
                 Name |-> prob.names[i],
                 Team |-> prob.teams[i],
                 Pos |-> prob.positions[i],
                 Cost |-> prob.costs[i],
                 Points |-> IF mode = "free_hit" THEN prob.fh_points[i]
                            ELSE prob.wc_points[i]]]

\* SortFrom with the keys the other way round: by=[p_sort, r_sort].
RECURSIVE SortFromPosFirst(_, _)
SortFromPosFirst(rows, key) ==
    IF key > 7 THEN << >>
    ELSE SelectRows(rows, {r \in SeqRange(rows) :
                              pos_map[r.Pos] * 2 + role_map[r.Role] = key})
         \o SortFromPosFirst(rows, key + 1)

\* sort_values(by=[r_sort, p_sort]): rows of equal keys keep their order.
RECURSIVE SortFrom(_, _)
SortFrom(rows, key) ==
    IF key > 7 THEN << >>
    ELSE SelectRows(rows, {r \in SeqRange(rows) :
                              role_map[r.Role] * 4 + pos_map[r.Pos] = key})
         \o SortFrom(rows, key + 1)

\* Returned without the status check: with no optimum it formats whatever
\* the variables hold, here nobody selected but the first eleven players.
ReturnedBestEffort(prob, mode, out) ==
    IF out.status # "Optimal"
    THEN LET some == {prob.order[i] : i \in 1..Len(prob.order)} \cap (1..StarterCount)
         IN  [status |-> "Squad",
              rows |-> SortFrom(Selected(prob, mode,
                          [status |-> "Optimal", squad |-> some, starters |-> some]), 0)]
    ELSE [status |-> "Squad", rows |-> SortFrom(Selected(prob, mode, out), 0)]

\* What solve_fpl_team returns for one end of the solver.
Returned(prob, mode, out) ==
    IF out.status # "Optimal" THEN [status |-> "None", rows |-> << >>]
    ELSE [status |-> "Squad", rows |-> SortFrom(Selected(prob, mode, out), 0)]

solve_fpl_team(df, mode) ==
    LET prob == Problem(df)
    IN  {Returned(prob, mode, out) : out \in SolverOutcomes(prob, mode)}

\* main, lines 160-169.
SolveWildcard ==
    /\ pc = "solve"
    /\ \E team \in solve_fpl_team(players_full, "wildcard") : wc_team' = team
    /\ pc' = "solve_free_hit"
    /\ UNCHANGED <<inputs, player_ids, futures, past_list, past_data, players_full, fh_team>>

\* main, lines 171-180.
SolveFreeHit ==
    /\ pc = "solve_free_hit"
    /\ \E team \in solve_fpl_team(players_full, "free_hit") : fh_team' = team
    /\ pc' = "done"
    /\ UNCHANGED <<inputs, player_ids, futures, past_list, past_data, players_full, wc_team>>

\* main, lines 144-155: a custom view prints the projections and returns.
CustomRun ==
    /\ pc = "solve"
    /\ pc' = "done"
    /\ UNCHANGED <<inputs, player_ids, futures, past_list, past_data, players_full,
                   wc_team, fh_team>>

---------------------------------------------------------------------------
(* The inputs the runs are checked on *)

\* A roster as the service returns it (form in 1/10, rates in 1/10000,
\* now_cost in 1/10 as the service gives it).
Roster ==
  <<
    [player_id |-> 1, first_name |-> "Ari", second_name |-> "Keeper",
     team_name |-> "Arsenal", position |-> "Goalkeeper", now_cost |-> 55,
     minutes |-> 1350, form |-> 45, expected_goals_per_90 |-> 0,
     expected_assists_per_90 |-> 100, saves_per_90 |-> 25000, bonus |-> 6,
     yellow_cards |-> 1, defensive_contribution |-> 0],
    [player_id |-> 2, first_name |-> "Lee", second_name |-> "Gloves",
     team_name |-> "Liverpool", position |-> "Goalkeeper", now_cost |-> 45,
     minutes |-> 1350, form |-> 30, expected_goals_per_90 |-> 0,
     expected_assists_per_90 |-> 0, saves_per_90 |-> 30000, bonus |-> 3,
     yellow_cards |-> 0, defensive_contribution |-> 0],
    [player_id |-> 3, first_name |-> "Cal", second_name |-> "Stopper",
     team_name |-> "Chelsea", position |-> "Goalkeeper", now_cost |-> 40,
     minutes |-> 900, form |-> 15, expected_goals_per_90 |-> 0,
     expected_assists_per_90 |-> 0, saves_per_90 |-> 35000, bonus |-> 2,
     yellow_cards |-> 1, defensive_contribution |-> 0],
    [player_id |-> 4, first_name |-> "Abe", second_name |-> "Back",
     team_name |-> "Arsenal", position |-> "Defender", now_cost |-> 60,
     minutes |-> 1350, form |-> 62, expected_goals_per_90 |-> 1000,
     expected_assists_per_90 |-> 1500, saves_per_90 |-> 0, bonus |-> 9,
     yellow_cards |-> 2, defensive_contribution |-> 150],
    [player_id |-> 5, first_name |-> "Art", second_name |-> "Wall",
     team_name |-> "Arsenal", position |-> "Defender", now_cost |-> 50,
     minutes |-> 1200, form |-> 40, expected_goals_per_90 |-> 500,
     expected_assists_per_90 |-> 500, saves_per_90 |-> 0, bonus |-> 4,
     yellow_cards |-> 3, defensive_contribution |-> 160],
    [player_id |-> 6, first_name |-> "Lou", second_name |-> "Guard",
     team_name |-> "Liverpool", position |-> "Defender", now_cost |-> 55,
     minutes |-> 1350, form |-> 35, expected_goals_per_90 |-> 800,
     expected_assists_per_90 |-> 2000, saves_per_90 |-> 0, bonus |-> 6,
     yellow_cards |-> 2, defensive_contribution |-> 120],
    [player_id |-> 7, first_name |-> "Max", second_name |-> "Block",
     team_name |-> "Man City", position |-> "Defender", now_cost |-> 45,
     minutes |-> 900, form |-> 25, expected_goals_per_90 |-> 400,
     expected_assists_per_90 |-> 600, saves_per_90 |-> 0, bonus |-> 3,
     yellow_cards |-> 1, defensive_contribution |-> 110],
    [player_id |-> 8, first_name |-> "Cy", second_name |-> "Shield",
     team_name |-> "Chelsea", position |-> "Defender", now_cost |-> 40,
     minutes |-> 900, form |-> 18, expected_goals_per_90 |-> 300,
     expected_assists_per_90 |-> 400, saves_per_90 |-> 0, bonus |-> 2,
     yellow_cards |-> 4, defensive_contribution |-> 130],
    [player_id |-> 9, first_name |-> "Sol", second_name |-> "Fence",
     team_name |-> "Spurs", position |-> "Defender", now_cost |-> 40,
     minutes |-> 450, form |-> (0 - 5), expected_goals_per_90 |-> 200,
     expected_assists_per_90 |-> 300, saves_per_90 |-> 0, bonus |-> 1,
     yellow_cards |-> 2, defensive_contribution |-> 60],
    [player_id |-> 10, first_name |-> "Ace", second_name |-> "Wing",
     team_name |-> "Arsenal", position |-> "Midfielder", now_cost |-> 80,
     minutes |-> 1200, form |-> 55, expected_goals_per_90 |-> 3500,
     expected_assists_per_90 |-> 2500, saves_per_90 |-> 0, bonus |-> 10,
     yellow_cards |-> 2, defensive_contribution |-> 90],
    [player_id |-> 11, first_name |-> "Lux", second_name |-> "Star",
     team_name |-> "Liverpool", position |-> "Midfielder", now_cost |-> 130,
     minutes |-> 1350, form |-> 75, expected_goals_per_90 |-> 6000,
     expected_assists_per_90 |-> 3500, saves_per_90 |-> 0, bonus |-> 18,
     yellow_cards |-> 1, defensive_contribution |-> 45],
    [player_id |-> 12, first_name |-> "Mo", second_name |-> "Pivot",
     team_name |-> "Man City", position |-> "Midfielder", now_cost |-> 65,
     minutes |-> 1200, form |-> 38, expected_goals_per_90 |-> 2500,
     expected_assists_per_90 |-> 2000, saves_per_90 |-> 0, bonus |-> 7,
     yellow_cards |-> 3, defensive_contribution |-> 140],
    [player_id |-> 13, first_name |-> "Cam", second_name |-> "Link",
     team_name |-> "Chelsea", position |-> "Midfielder", now_cost |-> 55,
     minutes |-> 900, form |-> 28, expected_goals_per_90 |-> 2000,
     expected_assists_per_90 |-> 1500, saves_per_90 |-> 0, bonus |-> 4,
     yellow_cards |-> 2, defensive_contribution |-> 100],
    [player_id |-> 14, first_name |-> "Sid", second_name |-> "Runner",
     team_name |-> "Spurs", position |-> "Midfielder", now_cost |-> 45,
     minutes |-> 450, form |-> 10, expected_goals_per_90 |-> 1000,
     expected_assists_per_90 |-> 1000, saves_per_90 |-> 0, bonus |-> 1,
     yellow_cards |-> 1, defensive_contribution |-> 50],
    [player_id |-> 15, first_name |-> "Mac", second_name |-> "Striker",
     team_name |-> "Man City", position |-> "Forward", now_cost |-> 140,
     minutes |-> 1350, form |-> 88, expected_goals_per_90 |-> 8000,
     expected_assists_per_90 |-> 1500, saves_per_90 |-> 0, bonus |-> 20,
     yellow_cards |-> 1, defensive_contribution |-> 15],
    [player_id |-> 16, first_name |-> "Ned", second_name |-> "Nine",
     team_name |-> "Newcastle", position |-> "Forward", now_cost |-> 75,
     minutes |-> 1200, form |-> 42, expected_goals_per_90 |-> 4500,
     expected_assists_per_90 |-> 1200, saves_per_90 |-> 0, bonus |-> 8,
     yellow_cards |-> 2, defensive_contribution |-> 20],
    [player_id |-> 17, first_name |-> "Sam", second_name |-> "Poacher",
     team_name |-> "Spurs", position |-> "Forward", now_cost |-> 45,
     minutes |-> 450, form |-> 12, expected_goals_per_90 |-> 2500,
     expected_assists_per_90 |-> 500, saves_per_90 |-> 0, bonus |-> 2,
     yellow_cards |-> 0, defensive_contribution |-> 8]
  >>

\* The expected minutes of each roster player, the same for every gameweek.
RosterXMin == <<90, 90, 85, 90, 85, 88, 75, 80, 60, 88, 90, 85, 78, 62, 90, 82, 65>>

\* Opponent codes and clean sheet probabilities (1/1000) for gameweeks 16..21.
ClubFixtures ==
  <<
    [team_name |-> "Arsenal",
     Opp |-> <<"WOL", "EVE", "BHA", "AVL", "BOU", "LIV">>,
     CS |-> <<600, 450, 400, 350, 400, 250>>],
    [team_name |-> "Liverpool",
     Opp |-> <<"BHA", "TOT", "WOL", "LEE", "FUL", "ARS">>,
     CS |-> <<400, 350, 550, 500, 400, 200>>],
    [team_name |-> "Man City",
     Opp |-> <<"CRY", "WHU", "NFO", "SUN", "CHE", "BHA">>,
     CS |-> <<350, 500, 400, 450, 300, 350>>],
    [team_name |-> "Chelsea",
     Opp |-> <<"EVE", "NEW", "AVL", "BOU", "MCI", "FUL">>,
     CS |-> <<350, 250, 300, 350, 150, 350>>],
    [team_name |-> "Spurs",
     Opp |-> <<"NFO", "LIV", "CRY", "BRE", "SUN", "BOU">>,
     CS |-> <<300, 150, 250, 200, 300, 250>>],
    [team_name |-> "Newcastle",
     Opp |-> <<"SUN", "CHE", "MUN", "BUR", "CRY", "LEE">>,
     CS |-> <<350, 250, 300, 450, 300, 400>>]
  >>

BaseMinutes ==
    [i \in 1..Len(Roster) |->
        [player_id |-> Roster[i].player_id, xMin |-> [gw \in GWs |-> Num(RosterXMin[i])]]]

BaseCleanSheets ==
    [i \in 1..Len(ClubFixtures) |->
        [team_name |-> ClubFixtures[i].team_name,
         Opp |-> [gw \in GWs |-> Num(ClubFixtures[i].Opp[gw - FirstGW + 1])],
         xClean_sheets |-> [gw \in GWs |-> Num(ClubFixtures[i].CS[gw - FirstGW + 1])]]]

\* Season entries of the history service, oldest first.
Seasons == <<"2021/22", "2022/23", "2023/24", "2024/25">>

SeasonStats ==
    <<[minutes |-> 450, goals_scored |-> 2, assists |-> 1, bonus |-> 3, saves |-> 0, yellow_cards |-> 1],
      [minutes |-> 900, goals_scored |-> 1, assists |-> 2, bonus |-> 5, saves |-> 10, yellow_cards |-> 2],
      [minutes |-> 300, goals_scored |-> 1, assists |-> 0, bonus |-> 1, saves |-> 5, yellow_cards |-> 1],
      [minutes |-> 900, goals_scored |-> 5, assists |-> 3, bonus |-> 10, saves |-> 20, yellow_cards |-> 3]>>

EntryKinds == {"ok", "low", "nomin", "bad"}

\* The entry of season n: as played ("ok"), at the 250 minute floor ("low"),
\* without its minutes ("nomin"), with a non-numeric goals value ("bad").
Entry(n, kind) ==
    LET t == SeasonStats[n]
    IN  [season_name |-> Seasons[n],
         minutes |-> IF kind = "nomin" THEN Missing
                     ELSE IF kind = "low" THEN Field(MinHistoryMinutes)
                     ELSE Field(t.minutes),
         goals_scored |-> IF kind = "bad" THEN NonNumeric ELSE Field(t.goals_scored),
         assists |-> Field(t.assists), bonus |-> Field(t.bonus),
         saves |-> Field(t.saves), yellow_cards |-> Field(t.yellow_cards)]

\* The history of the seasons in S, each of the kind f gives it.
History(S, f) ==
    LET idx == SelectRows([n \in 1..Len(Seasons) |-> n], S)
    IN  [ok |-> TRUE, history_past |-> [i \in 1..Len(idx) |-> Entry(idx[i], f[idx[i]])]]

FetchFailure == [ok |-> FALSE, history_past |-> << >>]

MaxHistLen == 3

\* Every response of at most MaxHistLen entries, and the failed fetch.
Responses ==
    {FetchFailure} \cup
    UNION {{History(S, f) : f \in [S -> EntryKinds]} :
              S \in {T \in SUBSET (1..Len(Seasons)) : Cardinality(T) <= MaxHistLen}}

\* A few responses for the other players of a batch.
PlainResponses ==
    {FetchFailure,
     History({3, 4}, [n \in {3, 4} |-> "ok"]),
     History({2, 3, 4}, [n \in {2, 3, 4} |-> "ok"])}

\* The history of roster player p in a whole run: none, the last season,
\* the last two, the last three, by the player's id.
RosterHistory(p) ==
    LET S == {n \in 1..Len(Seasons) : n > Len(Seasons) - (p % 4)}
    IN  History(S, [n \in S |-> "ok"])

---------------------------------------------------------------------------
(* A whole run of main *)

MaxCostStep == 3

\* How one player of the roster can fall out of the modeling population.
DropKinds == {"minutes", "xmin", "noxmin"}
Drops == {[id |-> 0, kind |-> "none"]} \cup
         {[id |-> Roster[i].player_id, kind |-> k] : i \in 1..Len(Roster), k \in DropKinds}

\* The roster with the two premium players dearer by step, and with the
\* dropped player at the 250 minute floor.
RosterOf(step, drop) ==
    [i \in 1..Len(Roster) |->
        LET r == Roster[i]
        IN  WithCols(r,
              [now_cost |-> IF r.player_id \in {11, 15} THEN r.now_cost + 10 * step
                            ELSE r.now_cost,
               minutes |-> IF drop.kind = "minutes" /\ drop.id = r.player_id
                           THEN MinMinutes ELSE r.minutes])]

\* The minutes table with the dropped player at the threshold, or absent.
MinutesOf(drop) ==
    LET kept == SelectRows(BaseMinutes,
                   {m \in SeqRange(BaseMinutes) :
                       ~(drop.kind = "noxmin" /\ drop.id = m.player_id)})
    IN  [i \in 1..Len(kept) |->
            IF drop.kind = "xmin" /\ drop.id = kept[i].player_id
            THEN WithCols(kept[i], [xMin |-> [gw \in GWs |-> Num(MinXMin)]])
            ELSE kept[i]]

Init ==
    /\ pc = "build_master_dataframe"
    /\ \E step \in 0..MaxCostStep, drop \in Drops :
          /\ players = RosterOf(step, drop)
          /\ minutes_df = MinutesOf(drop)
    /\ cs_df = BaseCleanSheets
    /\ api = [p \in {Roster[i].player_id : i \in 1..Len(Roster)} |-> RosterHistory(p)]
    /\ player_ids = << >>
    /\ futures = << >>
    /\ past_list = << >>
    /\ past_data = << >>
    /\ players_full = << >>
    /\ wc_team = NoTeam
    /\ fh_team = NoTeam

Next ==
    \/ BuildMaster
    \/ Prepare
    \/ GetPlayerHistory
    \/ MergeAndFill
    \/ RunProjections
    \/ SolveWildcard
    \/ SolveFreeHit
    \/ CustomRun

Spec == Init /\ [][Next]_vars

---------------------------------------------------------------------------
(* A batch of get_player_history, its tasks completing in every order *)

\* The players of the batch: the first takes every response, the others
\* the plain ones.
HistIds == <<16, 11, 4>>

\* The population main has prepared when it asks for the histories.
BasePopulation ==
    prepare_data_for_modeling(
        build_master_dataframe(Roster, BaseMinutes,
            [i \in 1..Len(BaseCleanSheets) |-> WithGoalProbs(BaseCleanSheets[i])]))

InitHist ==
    /\ pc = "get_player_history"
    /\ players = Roster
    /\ minutes_df = BaseMinutes
    /\ cs_df = BaseCleanSheets
    /\ players_full = SelectRows(BasePopulation,
                          {r \in SeqRange(BasePopulation) : r.player_id \in SeqRange(HistIds)})
    /\ player_ids = [i \in 1..Len(players_full) |-> players_full[i].player_id]
    /\ \E first \in Responses, rest \in [SeqRange(Tail(HistIds)) -> PlainResponses] :
          api = [p \in SeqRange(HistIds) |-> IF p = Head(HistIds) THEN first ELSE rest[p]]
    /\ futures = << >>
    /\ past_list = << >>
    /\ past_data = << >>
    /\ wc_team = NoTeam
    /\ fh_team = NoTeam

NextHist ==
    \/ HistSubmit
    \/ \E p \in SeqRange(player_ids) : WorkerRun(p)
    \/ \E p \in SeqRange(player_ids) : CollectResult(p)
    \/ HistReturn
    \/ MergeAndFill
    \/ RunProjections

SpecHist == InitHist /\ [][NextHist]_vars

---------------------------------------------------------------------------
(* A run of main with a custom view, on fixture data with a gap *)

GapKinds == {"noopp", "nocs", "unknownopp"}

\* What the clean sheet table can lack: nothing, the row of a club, or for
\* one club and gameweek the opponent, the clean sheet probability, or an
\* opponent code the difficulty map holds.
Gaps ==
    {[kind |-> "none", club |-> "", gw |-> FirstGW]} \cup
    {[kind |-> "noclub", club |-> BaseCleanSheets[i].team_name, gw |-> FirstGW] :
        i \in 1..Len(BaseCleanSheets)} \cup
    {[kind |-> k, club |-> BaseCleanSheets[i].team_name, gw |-> gw] :
        k \in GapKinds, i \in 1..Len(BaseCleanSheets), gw \in GWs}

CleanSheetsOf(gap) ==
    LET kept == SelectRows(BaseCleanSheets,
                   {c \in SeqRange(BaseCleanSheets) :
                       ~(gap.kind = "noclub" /\ gap.club = c.team_name)})
    IN  [i \in 1..Len(kept) |->
            IF gap.club # kept[i].team_name THEN kept[i]
            ELSE WithCols(kept[i],
                   [Opp |-> [gw \in GWs |->
                        IF gw = gap.gw /\ gap.kind = "noopp" THEN NaN
                        ELSE IF gw = gap.gw /\ gap.kind = "unknownopp" THEN Num("XXX")
                        ELSE kept[i].Opp[gw]],
                    xClean_sheets |-> [gw \in GWs |->
                        IF gw = gap.gw /\ gap.kind = "nocs" THEN NaN
                        ELSE kept[i].xClean_sheets[gw]]])]

InitProj ==
    /\ pc = "build_master_dataframe"
    /\ players = Roster
    /\ minutes_df = BaseMinutes
    /\ \E gap \in Gaps : cs_df = CleanSheetsOf(gap)
    /\ api = [p \in {Roster[i].player_id : i \in 1..Len(Roster)} |-> RosterHistory(p)]
    /\ player_ids = << >>
    /\ futures = << >>
    /\ past_list = << >>
    /\ past_data = << >>
    /\ players_full = << >>
    /\ wc_team = NoTeam
    /\ fh_team = NoTeam

NextProj ==
    \/ BuildMaster
    \/ Prepare
    \/ GetPlayerHistory
    \/ MergeAndFill
    \/ RunProjections
    \/ CustomRun

SpecProj == InitProj /\ [][NextProj]_vars

---------------------------------------------------------------------------
(* Properties of the returned squads *)

Teams == <<[mode |-> "wildcard", team |-> wc_team], [mode |-> "free_hit", team |-> fh_team]>>

RowsWith(rows, col, v) == {i \in 1..Len(rows) : rows[i][col] = v}
RoleCost(rows, role) ==
    SumSeq([i \in 1..Len(rows) |-> IF rows[i].Role = role THEN rows[i].Cost ELSE 0])
RolePoints(rows, role) ==
    SumSeq([i \in 1..Len(rows) |-> IF rows[i].Role = role THEN rows[i].Points ELSE 0])

SquadValid(rows) ==
    /\ Len(rows) = 15
    /\ Cardinality({rows[i].Name : i \in 1..Len(rows)}) = 15
    /\ \A i \in 1..Len(rows) : \E j \in 1..Len(players_full) :
          /\ rows[i].Name = players_full[j].first_name \o " " \o players_full[j].second_name
          /\ rows[i].Team = players_full[j].team_name
          /\ rows[i].Pos = players_full[j].position
          /\ rows[i].Cost = players_full[j].now_cost
    /\ Cardinality(RowsWith(rows, "Role", "Starter")) = 11
    /\ Cardinality(RowsWith(rows, "Role", "Bench")) = 4
    /\ RoleCost(rows, "Starter") + RoleCost(rows, "Bench") <= 1000
    /\ \A i \in 1..Len(rows) : Cardinality(RowsWith(rows, "Team", rows[i].Team)) <= 3
    /\ Cardinality(RowsWith(rows, "Pos", "Goalkeeper")) = 2
    /\ Cardinality(RowsWith(rows, "Pos", "Defender")) = 5
    /\ Cardinality(RowsWith(rows, "Pos", "Midfielder")) = 5
    /\ Cardinality(RowsWith(rows, "Pos", "Forward")) = 3
    /\ Cardinality(RowsWith(rows, "Pos", "Goalkeeper") \cap RowsWith(rows, "Role", "Starter")) = 1
    /\ Cardinality(RowsWith(rows, "Pos", "Defender") \cap RowsWith(rows, "Role", "Starter")) >= 3
    /\ Cardinality(RowsWith(rows, "Pos", "Forward") \cap RowsWith(rows, "Role", "Starter")) >= 1

C2_WildcardBenchFloor ==
    wc_team.status = "Squad" => RoleCost(wc_team.rows, "Bench") >= 185

\* A run whose wildcard bench meets the floor and whose free hit bench is
\* cheaper than the floor: the floor is not imposed on the free hit.
C2_Witness ==
    /\ wc_team.status = "Squad" /\ RoleCost(wc_team.rows, "Bench") >= 185
    /\ fh_team.status = "Squad" /\ RoleCost(fh_team.rows, "Bench") < 185

\* The assignments of the population df that meet the constraints of the
\* mode, as index sets of df: squad and bench (the starters are the rest).
PosCount(df, S, pos) == Cardinality({i \in S : df[i].position = pos})
CostOf(df, S) == SumOver([i \in 1..Len(df) |-> df[i].now_cost], S)

FeasibleSquadsOf(df) ==
    {sq \in kSubsets(1..Len(df), 15) :
        /\ CostOf(df, sq) <= 1000
        /\ \A i \in sq : Cardinality({j \in sq : df[j].team_name = df[i].team_name}) <= 3
        /\ PosCount(df, sq, "Goalkeeper") = 2
        /\ PosCount(df, sq, "Defender") = 5
        /\ PosCount(df, sq, "Midfielder") = 5
        /\ PosCount(df, sq, "Forward") = 3}

FeasibleOf(df, mode) ==
    UNION {{[squad |-> sq, bench |-> b] : b \in {c \in kSubsets(sq, 4) :
                /\ PosCount(df, sq \ c, "Goalkeeper") = 1
                /\ PosCount(df, sq \ c, "Defender") >= 3
                /\ PosCount(df, sq \ c, "Forward") >= 1
                /\ mode = "wildcard" => CostOf(df, c) >= 185}} :
           sq \in FeasibleSquadsOf(df)}

\* C3: solve_fpl_team returns the 'no squad found' outcome exactly when no
\* assignment meets the constraints of its mode, and otherwise a full Squad
\* that meets them: never a partial one.
C3_InfeasibleIsReported ==
    \A k \in 1..Len(Teams) :
        /\ Teams[k].team.status = "None" =>
              Teams[k].team.rows = << >> /\ FeasibleOf(players_full, Teams[k].mode) = {}
        /\ Teams[k].team.status = "Squad" =>
              /\ SquadValid(Teams[k].team.rows)
              /\ Teams[k].mode = "wildcard" => RoleCost(Teams[k].team.rows, "Bench") >= 185
              /\ FeasibleOf(players_full, Teams[k].mode) # {}

\* A run that reports both solves infeasible.
C3_Witness ==
    pc = "done" /\ wc_team.status = "None" /\ fh_team.status = "None"

\* Twice the objective of the mode for an assignment of df, and for the
\* returned rows (which carry the point value of the mode).
ObjectiveOf(df, mode, a) ==
    IF mode = "wildcard"
    THEN 2 * SumOver([i \in 1..Len(df) |-> df[i].total_decayed_points], a.squad \ a.bench)
         + SumOver([i \in 1..Len(df) |-> df[i].total_decayed_points], a.bench)
    ELSE 2 * SumOver([i \in 1..Len(df) |-> Val(df[i].expected_points[16])], a.squad \ a.bench)

RowsObjective(rows, mode) ==
    IF mode = "wildcard"
    THEN 2 * RolePoints(rows, "Starter") + RolePoints(rows, "Bench")
    ELSE 2 * RolePoints(rows, "Starter")

\* C4: no assignment that meets the constraints has a larger objective than
\* the returned Squad: starters plus half the bench over the decayed horizon
\* in wildcard mode, the starters' gameweek 16 points in free hit mode.
C4_ReturnedSquadOptimal ==
    \A k \in 1..Len(Teams) :
        Teams[k].team.status = "Squad" =>
            \A a \in FeasibleOf(players_full, Teams[k].mode) :
                ObjectiveOf(players_full, Teams[k].mode, a)
                    <= RowsObjective(Teams[k].team.rows, Teams[k].mode)

\* A wildcard Squad was returned where another assignment meets the
\* constraints with a strictly smaller objective, and likewise a free hit one.
C4_Witness ==
    /\ pc = "done" /\ wc_team.status = "Squad" /\ fh_team.status = "Squad"
    /\ \E a \in FeasibleOf(players_full, "wildcard") :
          ObjectiveOf(players_full, "wildcard", a) < RowsObjective(wc_team.rows, "wildcard")
    /\ \E a \in FeasibleOf(players_full, "free_hit") :
          ObjectiveOf(players_full, "free_hit", a) < RowsObjective(fh_team.rows, "free_hit")

---------------------------------------------------------------------------
(* The two solves of main as calls that may overlap *)

Modes == {"wildcard", "free_hit"}

\* InputAfterCall with the costs of the caller's frame rescaled in place.
InputCostsRescaled(df_input) ==
    [i \in 1..Len(df_input) |->
        WithCols(df_input[i], [now_cost |-> df_input[i].now_cost * 10])]

\* df = df_input.copy(): the call works on its own copy, and the frame of
\* the caller is after the call what it was before.
InputAfterCall(df_input) == df_input

TeamOf(mode) == IF mode = "wildcard" THEN wc_team ELSE fh_team

\* solve_fpl_team is entered: lines 9-28, the copy and the dictionaries.
BeginSolve(mode) ==
    /\ pc = "solve"
    /\ TeamOf(mode).status = "unset"
    /\ LET call == [status |-> "solving", rows |-> << >>, df |-> players_full]
       IN  IF mode = "wildcard"
           THEN wc_team' = call /\ UNCHANGED fh_team
           ELSE fh_team' = call /\ UNCHANGED wc_team
    /\ UNCHANGED <<pc, inputs, player_ids, futures, past_list, past_data, players_full>>

\* solve_fpl_team returns: lines 30-104 on the copy taken at entry.  main
\* goes on when both calls have returned.
EndSolve(mode) ==
    /\ pc = "solve"
    /\ TeamOf(mode).status = "solving"
    /\ \E team \in solve_fpl_team(TeamOf(mode).df, mode) :
          IF mode = "wildcard"
          THEN wc_team' = team /\ UNCHANGED fh_team
          ELSE fh_team' = team /\ UNCHANGED wc_team
    /\ players_full' = InputAfterCall(players_full)
    /\ pc' = IF \A m \in Modes \ {mode} : TeamOf(m).status \in {"Squad", "None"}
             THEN "done" ELSE "solve"
    /\ UNCHANGED <<inputs, player_ids, futures, past_list, past_data>>

NextSolve ==
    \/ BuildMaster
    \/ Prepare
    \/ GetPlayerHistory
    \/ MergeAndFill
    \/ RunProjections
    \/ \E mode \in Modes : BeginSolve(mode)
    \/ \E mode \in Modes : EndSolve(mode)

SpecSolve == Init /\ [][NextSolve]_vars

---------------------------------------------------------------------------
(* A whole run of main on tables that may hold a repeated key *)

FaultTables == {"roster", "minutes", "cs"}

\* Nothing repeated, or the row at one place of one table repeated at its
\* end, as an exact copy or with other values under the same key.
Faults ==
    {[table |-> "none", at |-> 1, copy |-> TRUE]} \cup
    {[table |-> "roster", at |-> i, copy |-> c] : i \in 1..Len(Roster), c \in BOOLEAN} \cup
    {[table |-> "minutes", at |-> i, copy |-> c] : i \in 1..Len(BaseMinutes), c \in BOOLEAN} \cup
    {[table |-> "cs", at |-> i, copy |-> c] : i \in 1..Len(BaseCleanSheets), c \in BOOLEAN}

FaultyRoster(f) ==
    IF f.table # "roster" THEN Roster
    ELSE Append(Roster,
            IF f.copy THEN Roster[f.at]
            ELSE WithCols(Roster[f.at], [now_cost |-> Roster[f.at].now_cost + 5]))

FaultyMinutes(f) ==
    IF f.table # "minutes" THEN BaseMinutes
    ELSE Append(BaseMinutes,
            IF f.copy THEN BaseMinutes[f.at]
            ELSE WithCols(BaseMinutes[f.at], [xMin |-> [gw \in GWs |-> Num(60)]]))

FaultyCleanSheets(f) ==
    IF f.table # "cs" THEN BaseCleanSheets
    ELSE Append(BaseCleanSheets,
            IF f.copy THEN BaseCleanSheets[f.at]
            ELSE WithCols(BaseCleanSheets[f.at],
                    [xClean_sheets |-> [gw \in GWs |-> Num(200)]]))

InitJoin ==
    /\ pc = "build_master_dataframe"
    /\ \E f \in Faults :
          /\ players = FaultyRoster(f)
          /\ minutes_df = FaultyMinutes(f)
          /\ cs_df = FaultyCleanSheets(f)
    /\ api = [p \in {Roster[i].player_id : i \in 1..Len(Roster)} |-> RosterHistory(p)]
    /\ player_ids = << >>
    /\ futures = << >>
    /\ past_list = << >>
    /\ past_data = << >>
    /\ players_full = << >>
    /\ wc_team = NoTeam
    /\ fh_team = NoTeam

NextJoin ==
    \/ BuildMaster
    \/ Prepare
    \/ GetPlayerHistory
    \/ MergeAndFill
    \/ RunProjections
    \/ SolveWildcard
    \/ SolveFreeHit
    \/ CustomRun

SpecJoin == InitJoin /\ [][NextJoin]_vars

---------------------------------------------------------------------------
(* Properties of the joins *)

Repeats(frame, key) ==
    \E i, j \in 1..Len(frame) : i # j /\ frame[i][key] = frame[j][key]

\* C11: when a player id occurs twice in the roster or in the minutes table,
\* or a club occurs twice in the clean sheet table, the run ends in
\* build_master_dataframe with a MergeError: no population, no projection
\* and no Squad is produced; and no population ever holds a player twice.
C11_BadJoinAborts ==
    /\ ( /\ pc # "build_master_dataframe"
         /\ \/ Repeats(players, "player_id")
            \/ Repeats(minutes_df, "player_id")
            \/ Repeats(cs_df, "team_name") )
       => /\ pc = "MergeError"
          /\ players_full = << >>
          /\ past_data = << >>
          /\ wc_team.status = "unset" /\ fh_team.status = "unset"
    /\ ~Repeats(players_full, "player_id")

\* A run ended with a MergeError on a clean sheet table that holds a club
\* twice, the roster and the minutes table holding every id once.
C11_Witness ==
    /\ pc = "MergeError"
    /\ Repeats(cs_df, "team_name")
    /\ ~Repeats(players, "player_id")
    /\ ~Repeats(minutes_df, "player_id")

---------------------------------------------------------------------------
(* Properties of the modeling population *)

FullName(r) == r.first_name \o " " \o r.second_name

\* The roster row r has more than 250 minutes and an expected minutes entry
\* for gameweek 16 above 55.
Qualifies(r) ==
    /\ r.minutes > 250
    /\ \E i \in 1..Len(minutes_df) :
          /\ minutes_df[i].player_id = r.player_id
          /\ minutes_df[i].xMin[16] # NaN
          /\ Val(minutes_df[i].xMin[16]) > 55

NamesOf(team) == {team.rows[i].Name : i \in 1..Len(team.rows)}

\* C10: once the population is prepared it holds qualifying players only,
\* and a player who does not qualify (250 minutes or fewer, expected
\* minutes of 55 or fewer, or no expected minutes entry) is in no projected
\* row and in no returned Squad.
C10_OnlyQualifiedPlayers ==
    pc \notin {"build_master_dataframe", "prepare_data_for_modeling"} =>
        /\ \A j \in 1..Len(players_full) : \E i \in 1..Len(players) :
              players[i].player_id = players_full[j].player_id /\ Qualifies(players[i])
        /\ \A i \in 1..Len(players) : ~Qualifies(players[i]) =>
              /\ \A j \in 1..Len(players_full) :
                    players_full[j].player_id # players[i].player_id
              /\ FullName(players[i]) \notin NamesOf(wc_team) \cup NamesOf(fh_team)

\* Both Squads were returned in a run whose roster holds a player with no
\* expected minutes entry.
C10_Witness ==
    /\ pc = "done" /\ wc_team.status = "Squad" /\ fh_team.status = "Squad"
    /\ \E i \in 1..Len(players) :
          /\ ~Qualifies(players[i])
          /\ \A k \in 1..Len(minutes_df) : minutes_df[k].player_id # players[i].player_id

---------------------------------------------------------------------------
(* Properties of the history aggregation *)

Started(p) == futures # << >> /\ futures[p].st # "pending"

Merged == pc \in {"run_projections", "solve"}

RowOf(df, p) == df[CHOOSE i \in 1..Len(df) : df[i].player_id = p]

\* C6: a player whose aggregation gave 'no data' stays in the population with
\* g, a, b, s, y equal to the current-season expected goals, expected
\* assists, bonus, saves and yellow cards per 90, and is projected.
C6_NoDataTakesCurrentRates ==
    Merged =>
        \A k \in 1..Len(player_ids) :
            LET p == player_ids[k] IN
            futures[p].result = NoData =>
                /\ \E i \in 1..Len(players_full) : players_full[i].player_id = p
                /\ LET r == RowOf(players_full, p)
                   IN  /\ r.g = Num(r.expected_goals_per_90)
                       /\ r.a = Num(r.expected_assists_per_90)
                       /\ r.b = Num(r.bonus_per_90)
                       /\ r.s = Num(r.saves_per_90)
                       /\ r.y = Num(r.yellow_cards_per_90)
                       /\ pc = "solve" => \A gw \in 16..21 : r.expected_points[gw] # NaN

\* The player with expected goals per 90 of 0.45 had no data, and g is 0.45.
C6_Witness ==
    /\ pc = "solve"
    /\ futures[16].result = NoData
    /\ RowOf(players_full, 16).expected_goals_per_90 = 4500
    /\ RowOf(players_full, 16).g = Num(4500)

IsMalformed(r) ==
    \/ r.minutes.k = "missing"
    \/ \E i \in 1..Len(stats) : r[stats[i]].k = "str"

\* The response is a failed fetch or holds a malformed record.
FailedOrMalformed(data) ==
    ~data.ok \/ \E i \in 1..Len(data.history_past) : IsMalformed(data.history_past[i])

\* The response makes the aggregation raise: the fetch failed, no record
\* carries minutes, or a record of a recognized season with more than 250
\* minutes holds a non-numeric stat.
RaisingFailure(data) ==
    \/ ~data.ok
    \/ /\ data.history_past # << >>
       /\ \/ \A i \in 1..Len(data.history_past) : data.history_past[i].minutes.k = "missing"
          \/ \E i \in 1..Len(data.history_past) :
                LET r == data.history_past[i]
                IN  /\ r.season_name \in {"2022/23", "2023/24", "2024/25"}
                    /\ r.minutes.k = "num" /\ r.minutes.v > 250
                    /\ \E c \in 1..Len(stats) : r[stats[c]].k = "str"

\* The rows get_player_history returns for the responses a, as a set.
RowsFor(a) ==
    {[id |-> q, g |-> x[1], a |-> x[2], b |-> x[3], s |-> x[4], y |-> x[5]] :
        <<q, x>> \in {<<q, fetch_single_player_history(q, a[q])>> : q \in DOMAIN a}
                  \ {<<q, NoData>> : q \in DOMAIN a}}

NoHistory == [ok |-> TRUE, history_past |-> << >>]

\* The batch never ends by an exception, and what it returns is what it
\* returns when every player in F has no history at all.
BatchUnaffectedBy(F) ==
    /\ pc # "raised"
    /\ pc \in {"merge_history", "run_projections", "solve"} =>
          SeqRange(past_data) = RowsFor([q \in DOMAIN api |-> IF q \in F THEN NoHistory ELSE api[q]])

\* C7 as stated: a failed fetch or a malformed record makes the player's
\* aggregation yield 'no data', without raising out of the batch and without
\* changing the blends of the other players.
C7_AnyMalformedRecordGivesNoData ==
    /\ \A p \in DOMAIN api : Started(p) /\ FailedOrMalformed(api[p]) => futures[p].result = NoData
    /\ BatchUnaffectedBy({p \in DOMAIN api : FailedOrMalformed(api[p])})

\* C7 amended: a failure that raises (a failed fetch, no record carrying
\* minutes, a non-numeric stat in a record that passes the eligibility
\* filter) makes the player's aggregation yield 'no data', without raising
\* out of the batch and without changing the blends of the other players.
C7_RaisingFailureGivesNoData ==
    /\ \A p \in DOMAIN api : Started(p) /\ RaisingFailure(api[p]) => futures[p].result = NoData
    /\ BatchUnaffectedBy({p \in DOMAIN api : RaisingFailure(api[p])})

\* A batch returned blends although one response, fetched well, held a
\* non-numeric stat in an eligible record.
C7_Witness ==
    /\ pc = "merge_history"
    /\ past_data # << >>
    /\ \E p \in DOMAIN api : api[p].ok /\ RaisingFailure(api[p]) /\ futures[p].result = NoData

\* The records of a response that are of a recognized season and have more
\* than 250 minutes, oldest first.
EligibleRecords(data) ==
    SelectRows(data.history_past,
        {r \in SeqRange(data.history_past) :
            /\ r.season_name \in {"2022/23", "2023/24", "2024/25"}
            /\ r.minutes.k = "num" /\ r.minutes.v > 250})

WeightTable == <<(<<100>>), <<35, 65>>, <<10, 25, 65>>>>

RateOf(r, c) == (r[stats[c]].v * 900000) \div r.minutes.v

C9_CollectedByIdentity ==
    pc \in {"merge_history", "run_projections", "solve"} =>
        /\ \A i \in 1..Len(past_data) : past_data[i].id \in SeqRange(player_ids)
        /\ \A k \in 1..Len(player_ids) :
              LET q == player_ids[k]
                  own == fetch_single_player_history(q, api[q])
                  rows == {i \in 1..Len(past_data) : past_data[i].id = q}
              IN  IF own = NoData THEN rows = {}
                  ELSE /\ Cardinality(rows) = 1
                       /\ \A i \in rows :
                             past_data[i] = [id |-> q, g |-> own[1], a |-> own[2],
                                             b |-> own[3], s |-> own[4], y |-> own[5]]

\* A batch was returned whose results arrived in another order than the ids
\* were submitted in.
C9_Witness ==
    /\ pc = "merge_history"
    /\ Len(past_list) >= 2
    /\ \E i, j \in 1..Len(player_ids) :
          i < j /\ past_list[1][6] = player_ids[j] /\ past_list[2][6] = player_ids[i]

---------------------------------------------------------------------------
(* Properties of the projections *)

\* The row with the defaults of a gap in gameweek gw: clean sheet
\* probability 0 (and no goals-conceded terms) where the entry is missing.
WithFixtureDefaults(r, gw) ==
    IF IsNaN(r.xClean_sheets[gw])
    THEN WithCols(r, [xClean_sheets |-> [r.xClean_sheets EXCEPT ![gw] = Num(0)],
                      x2 |-> [r.x2 EXCEPT ![gw] = Num(0)],
                      x4 |-> [r.x4 EXCEPT ![gw] = Num(0)]])
    ELSE r

\* C5: a gameweek for which a player has no opponent entry or no clean sheet
\* entry is projected with fixture multiplier 1.0 and clean sheet
\* probability 0: the value is a defined number.
C5_MissingFixtureDefaults ==
    pc = "done" =>
        \A j \in 1..Len(players_full) : \A gw \in 16..21 :
            LET r == players_full[j] IN
            (IsNaN(r.Opp[gw]) \/ IsNaN(r.xClean_sheets[gw])) =>
                /\ r.expected_points[gw] # NaN
                /\ IsNaN(r.Opp[gw]) => FixtureMult(r.Opp[gw]) = 100
                /\ r.expected_points[gw]
                      = GwPoints(WithFixtureDefaults(r, gw), PositionWeights[r.position], gw)

---------------------------------------------------------------------------
(* Properties of the returned records *)

RoleRank(role) == CASE role = "Starter" -> 0 [] role = "Bench" -> 1

PosRank(pos) ==
    CASE pos = "Goalkeeper" -> 0 [] pos = "Defender" -> 1
      [] pos = "Midfielder" -> 2 [] pos = "Forward" -> 3

\* Every Starter stands before every Bench record, and within each group
\* the positions stand in the order Goalkeeper, Defender, Midfielder, Forward.
InDisplayOrder(rows) ==
    \A i, j \in 1..Len(rows) : i < j =>
        \/ RoleRank(rows[i].Role) < RoleRank(rows[j].Role)
        \/ /\ rows[i].Role = rows[j].Role
           /\ PosRank(rows[i].Pos) <= PosRank(rows[j].Pos)

\* The point value of the mode: the projection of gameweek 16 for the free
\* hit, the decayed total for the wildcard.
ModePoints(r, mode) ==
    IF mode = "free_hit" THEN Val(r.expected_points[16]) ELSE r.total_decayed_points

\* The rows are the records of an assignment the solver can end with: one
\* row for each of its 15 selected players, tagged by the starter indicator
\* and carrying the player's display fields and the point value of the mode.
RecordsOfAnOutcome(rows, mode) ==
    \E out \in SolverOutcomes(Problem(players_full), mode) :
        /\ out.status = "Optimal"
        /\ Len(rows) = 15
        /\ \A p \in out.squad :
              LET r == RowOf(players_full, p)
              IN  \E k \in 1..Len(rows) :
                    rows[k] = [Role |-> IF p \in out.starters THEN "Starter" ELSE "Bench",
                               Name |-> FullName(r),
                               Team |-> r.team_name,
                               Pos |-> r.position,
                               Cost |-> r.now_cost,
                               Points |-> ModePoints(r, mode)]

\* C12: a returned Squad holds one record for each of the 15 selected
\* players, tagged Starter exactly when the starter indicator is 1 and Bench
\* otherwise, with the point value of the run's mode, Starters before Bench
\* and, within each group, Goalkeeper, Defender, Midfielder, Forward.
C12_RecordsTaggedAndOrdered ==
    /\ wc_team.status = "Squad" =>
          RecordsOfAnOutcome(wc_team.rows, "wildcard") /\ InDisplayOrder(wc_team.rows)
    /\ fh_team.status = "Squad" =>
          RecordsOfAnOutcome(fh_team.rows, "free_hit") /\ InDisplayOrder(fh_team.rows)

\* Both Squads were returned; a Bench goalkeeper stands after a Starter
\* forward, and a player of both Squads carries another point value in each.
C12_Witness ==
    /\ pc = "done" /\ wc_team.status = "Squad" /\ fh_team.status = "Squad"
    /\ \E i, j \in 1..Len(fh_team.rows) :
          /\ i < j
          /\ fh_team.rows[i].Role = "Starter" /\ fh_team.rows[i].Pos = "Forward"
          /\ fh_team.rows[j].Role = "Bench" /\ fh_team.rows[j].Pos = "Goalkeeper"
    /\ \E i \in 1..Len(wc_team.rows), j \in 1..Len(fh_team.rows) :
          /\ wc_team.rows[i].Name = fh_team.rows[j].Name
          /\ wc_team.rows[i].Points # fh_team.rows[j].Points

---------------------------------------------------------------------------
(* Properties of the two calls *)

HasReturned(team) == team.status \in {"Squad", "None"}

\* What a call of the mode returns when it runs alone on the population.
AloneOn(df, mode) == solve_fpl_team(df, mode)

\* A call that has returned has returned what it returns alone on the
\* population: a Squad when a feasible assignment exists, infeasibility when
\* none does; a call that has not returned yet works on an equal copy.
ReturnedAsAlone ==
    /\ HasReturned(wc_team) =>
          /\ wc_team \in AloneOn(players_full, "wildcard")
          /\ wc_team.status = "Squad" <=> FeasibleOf(players_full, "wildcard") # {}
    /\ HasReturned(fh_team) =>
          /\ fh_team \in AloneOn(players_full, "free_hit")
          /\ fh_team.status = "Squad" <=> FeasibleOf(players_full, "free_hit") # {}
    /\ \A m \in {"wildcard", "free_hit"} :
          LET t == IF m = "wildcard" THEN wc_team ELSE fh_team
          IN  t.status = "solving" => t.df = players_full

\* C13: no step of either call changes the population or what the other
\* call has returned, and each call, in whatever order the two are entered
\* and return, returns what it returns alone on that population.
C13_CallsIndependent ==
    /\ []ReturnedAsAlone
    /\ [][pc = "solve" =>
            /\ players_full' = players_full
            /\ HasReturned(wc_team) => wc_team' = wc_team
            /\ HasReturned(fh_team) => fh_team' = fh_team]_vars

\* The free hit call has returned a Squad while the wildcard call, entered
\* before or after it, has not returned yet.
C13_Witness ==
    /\ fh_team.status = "Squad"
    /\ wc_team.status = "solving"

=============================================================================
